---- MODULE Spec2Model ----
(***************************************************************************)
(* Log-artifact error surveillance of cardano_node_tests/utils/logfiles.py *)
(*                                                                         *)
(* The state directory of one cluster instance is a map from file names to *)
(* files.  A log file holds text: a sequence of one-unit symbols (words    *)
(* and the newline NL); a byte offset is an index into that sequence.      *)
(* Worker processes run search_cluster_artifacts and expect_errors step by *)
(* step; the processes that write and rotate the logs are the environment. *)
(***************************************************************************)
EXTENDS Integers, Sequences, FiniteSets, TLC

(***************************************************************************)
(* Bounds of the model.                                                    *)
(***************************************************************************)
MaxTime == 3        \* readings of the clock
MaxAppend == 3      \* lines appended to the logs in one behaviour
MaxRot == 1         \* rotations of one artifact
MaxSweeps == 3      \* calls of search_cluster_artifacts by one worker

Workers == {"w1", "w2"}
Bases == {"node.stdout", "pool.stdout"}
Groups == {"g1", "g2"}

NL == "\n"
SEP == ";;"

(***************************************************************************)
(* Sequences.                                                              *)
(***************************************************************************)
Range(s) == {s[i] : i \in DOMAIN s}

Max2(a, b) == IF a >= b THEN a ELSE b

\* All orderings of the finite set S.
RECURSIVE Perms(_)
Perms(S) ==
  IF S = {} THEN {<<>>}
  ELSE UNION {{<<x>> \o p : p \in Perms(S \ {x})} : x \in S}

\* str.split(sep) on a sequence of symbols: the pieces between separators.
RECURSIVE Split(_, _)
Split(s, sep) ==
  IF \A i \in DOMAIN s : s[i] # sep THEN <<s>>
  ELSE LET k == CHOOSE i \in DOMAIN s :
                  s[i] = sep /\ \A j \in 1..(i - 1) : s[j] # sep
       IN <<SubSeq(s, 1, k - 1)>> \o Split(SubSeq(s, k + 1, Len(s)), sep)

\* The ascending sequence of the finite set of integers S.
SortSet(S) ==
  CHOOSE s \in [1..Cardinality(S) -> S] :
    \A i, j \in 1..Cardinality(S) : i < j => s[i] < s[j]

\* Iteration of a text file from position `pos` (open, seek(pos), for line in
\* infile): the lines, each with its newline, the first one cut where the
\* position falls inside a line.  `end` is the offset just after the line.
EndsFrom(data, pos) ==
  {i \in (pos + 1)..Len(data) : data[i] = NL \/ i = Len(data)}

ReadFrom(data, pos) ==
  LET es == SortSet(EndsFrom(data, pos))
  IN [j \in 1..Len(es) |->
        [end |-> es[j],
         text |-> SubSeq(data, (IF j = 1 THEN pos ELSE es[j - 1]) + 1, es[j])]]

\* str.rstrip("\n")
RECURSIVE rstrip(_)
rstrip(s) ==
  IF s # <<>> /\ s[Len(s)] = NL THEN rstrip(SubSeq(s, 1, Len(s) - 1)) ELSE s

(***************************************************************************)
(* Text.  A word is one symbol of a log line.  Has(w) lists the regular    *)
(* expressions of the program that re.search finds in the word w, HasCI(w) *)
(* those found when case is ignored (re.IGNORECASE).                       *)
(***************************************************************************)
Words == {"ok", "ERROR:", ":error:", "failed", "disk full", "MyExpectedError",
          "failedScripts"}

Has(w) ==
  CASE w = ":error:" -> {":error:"}
    [] w = "failed" -> {"failed"}
    [] w = "disk full" -> {"disk full"}
    [] w = "MyExpectedError" -> {"MyExpectedError"}
    [] w = "failedScripts" -> {"failed", "failedScripts"}
    [] OTHER -> {}

HasCI(w) ==
  CASE w = "ERROR:" -> {"error:"}
    [] w = ":error:" -> {":error:"}
    [] w = "failed" -> {"failed"}
    [] w = "disk full" -> {"disk full"}
    [] w = "MyExpectedError" -> {"myexpectederror"}
    [] w = "failedScripts" -> {"failed", "failedscripts"}
    [] OTHER -> {}

\* re.compile(":error:|failed|failure", re.IGNORECASE): its alternatives.
ERRORS_RE == {":error:", "failed", "failure"}

\* ERRORS_RE.search(line)
ERRORS_RE_search(line) ==
  \E i \in DOMAIN line : HasCI(line[i]) \cap ERRORS_RE # {}

\* A regular expression taken from a rule or from the baseline list is a
\* sequence of symbols (a string); re.compile(regex).search(line).  The empty
\* expression matches every line.
re_search(regex, line) ==
  \/ regex = <<>>
  \/ /\ Len(regex) = 1
     /\ \E i \in DOMAIN line : regex[1] \in Has(line[i])

ERRORS_IGNORED ==
  << <<"Connection Attempt Exception">>,
     <<"EKGServerStartupError">>,
     <<"ExceededTimeLimit">>,
     <<"Failed to start all required subscriptions">>,
     <<"TraceDidntAdoptBlock">>,
     <<"failedScripts">>,
     <<"closed when reading data, waiting on next header">>,
     <<"MuxIOException writev: resource vanished">>,
     <<"MuxIOException Network\\.Socket\\.recvBuf: resource vanished">>,
     <<"db-sync-node:.* AsyncCancelled">>,
     <<"db-sync-node:.* validateEpochRewardsBefore">>,
     <<"db-sync-node:.*could not serialize access">> >>

(***************************************************************************)
(* File names of the state directory.                                      *)
(*   Log(b, 0)  the live log file b          Log(b, n)  its copy b.<n>     *)
(*   Off(b)     the sidecar .b.offset        Rules(g)   .errors_rules_<g>  *)
(***************************************************************************)
Log(b, n) == [kind |-> "log", base |-> b, n |-> n]
Off(b) == [kind |-> "off", base |-> b, n |-> 0]
Rules(g) == [kind |-> "rules", base |-> g, n |-> 0]

Names ==
  {Log(b, n) : b \in Bases, n \in 0..(MaxRot + 1)}
    \cup {Off(b) : b \in Bases} \cup {Rules(g) : g \in Groups}

NoFile == [exists |-> FALSE, data |-> <<>>, mtime |-> 0]
File(data, mtime) == [exists |-> TRUE, data |-> data, mtime |-> mtime]

\* re.compile(r".+\.[0-9]+").match(name)
ROTATED_RE_match(name) == name.kind = "log" /\ name.n > 0

\* name.endswith(".offset")
EndsWithOffset(name) == name.kind = "off"

\* fnmatch of a file name against a glob pattern (Path.glob and fnmatch.filter
\* agree on these patterns; Path.glob also matches names with a leading dot).
GlobMatch(glob, name) ==
  CASE glob = "*.std*" -> name.kind \in {"log", "off"}
    [] glob = "*.stdout" -> name.kind = "log" /\ name.n = 0
    [] glob \in Bases -> name = Log(glob, 0)
    [] OTHER -> FALSE

\* fnmatch.filter([name], files_glob) for a glob read from a rule file.
fnmatch_filter(name, files_glob) ==
  Len(files_glob) = 1 /\ GlobMatch(files_glob[1], name)

\* helpers.get_eof_offset(path): the size of the file.
get_eof_offset(dir, name) == Len(dir[name].data)

(***************************************************************************)
(* Rotation resolver.                                                      *)
(***************************************************************************)
RotableLog(f, s, t) == [logfile |-> f, seek |-> s, timestamp |-> t]

\* sorted(records, key=timestamp, reverse=True): every order the sort can
\* give; records with equal timestamps keep the order of the directory
\* listing, which is any order.
SortedByTimestamp(records) ==
  {p \in Perms(records) :
     \A i \in 1..(Len(p) - 1) : p[i].timestamp >= p[i + 1].timestamp}

\* get_rotated_logs without the test `r.timestamp > timestamp`: every version
\* of the log file is kept, also the ones not modified since the last search.
get_rotated_logs_unfiltered(dir, logfile, seek, timestamp) ==
  LET logfiles == {f \in Names : /\ f.kind = "log"
                                 /\ f.base = logfile.base
                                 /\ dir[f].exists}
      records == {RotableLog(f, 0, dir[f].mtime) : f \in logfiles}
  IN {IF p = <<>> THEN p
      ELSE [p EXCEPT ![1] = RotableLog(p[1].logfile, seek, p[1].timestamp)] :
        p \in SortedByTimestamp(records)}

\* get_rotated_logs(logfile, seek, timestamp): the lists it can return.
get_rotated_logs(dir, logfile, seek, timestamp) ==
  LET logfiles == {f \in Names : /\ f.kind = "log"
                                 /\ f.base = logfile.base
                                 /\ dir[f].exists}
      records == {RotableLog(f, 0, dir[f].mtime) : f \in logfiles}
      kept == {r \in records : r.timestamp > timestamp}
  IN {IF p = <<>> THEN p
      ELSE [p EXCEPT ![1] = RotableLog(p[1].logfile, seek, p[1].timestamp)] :
        p \in SortedByTimestamp(kept)}

(***************************************************************************)
(* Ignore-rule store.                                                      *)
(***************************************************************************)
\* The line add_ignore_rule writes: f"{files_glob};;{regex}\n".
RuleLine(files_glob, regex) == files_glob \o <<SEP>> \o regex \o <<NL>>

\* The loop body without its test `if ";;" not in line: continue`: a line
\* without ";;" reaches the unpacking of line.split(";;") and raises.
ParseRuleLine_strict(line) ==
  LET parts == Split(line, SEP)
  IN IF Len(parts) # 2 THEN [raised |-> TRUE, rules |-> {}]
     ELSE [raised |-> FALSE, rules |-> {<<parts[1], rstrip(parts[2])>>}]

\* The body of the loop of get_ignore_rules over one line of a rule file:
\* the rule of the line, none for a line without ";;", and ValueError when
\* line.split(";;") does not give exactly two fields.
ParseRuleLine(line) ==
  IF SEP \notin Range(line) THEN [raised |-> FALSE, rules |-> {}]
  ELSE LET parts == Split(line, SEP)
       IN IF Len(parts) # 2 THEN [raised |-> TRUE, rules |-> {}]
          ELSE [raised |-> FALSE, rules |-> {<<parts[1], rstrip(parts[2])>>}]

\* get_ignore_rules(): the rules of every rule file of the state directory.
\* The result is a list in directory order; its callers use it as a set.
get_ignore_rules(dir) ==
  LET files == {f \in Names : f.kind = "rules" /\ dir[f].exists}
      parsed == {ParseRuleLine(l.text) :
                   l \in UNION {Range(ReadFrom(dir[f].data, 0)) : f \in files}}
  IN [raised |-> \E p \in parsed : p.raised,
      rules |-> UNION {p.rules : p \in parsed}]

\* A rule of group g in the store matches the file and the line.
Covers(dir, g, logfile, line) ==
  /\ dir[Rules(g)].exists
  /\ \E l \in Range(ReadFrom(dir[Rules(g)].data, 0)) :
       \E r \in ParseRuleLine(l.text).rules :
         fnmatch_filter(logfile, r[1]) /\ re_search(r[2], line)

\* get_ignore_regex without the test of the glob: the regex of every rule is
\* taken, whatever file the rule is for.
get_ignore_regex_anyglob(ignore_rules, regexes, logfile) ==
  Range(regexes) \cup {record[2] : record \in ignore_rules}

\* get_ignore_regex(ignore_rules, regexes, logfile): the alternatives of the
\* joined expression "|".join(regex_set).
get_ignore_regex(ignore_rules, regexes, logfile) ==
  Range(regexes) \cup
    {record[2] : record \in
       {r \in ignore_rules : fnmatch_filter(logfile, r[1])}}

\* errors_ignored and errors_ignored_re.search(line): the joined expression
\* is the empty string when there is no alternative or only the empty one.
errors_ignored_search(errors_ignored, line) ==
  /\ ~(errors_ignored \subseteq {<<>>})
  /\ \E r \in errors_ignored : re_search(r, line)

\* The test of one line without its ignore part.
Offending_noignore(errors_ignored, line) == ERRORS_RE_search(line)

\* The test of one line in search_cluster_artifacts.
Offending(errors_ignored, line) ==
  ERRORS_RE_search(line) /\ ~errors_ignored_search(errors_ignored, line)

(***************************************************************************)
(* State.                                                                  *)
(*   dir      the state directory: file name -> file                       *)
(*   now      the reading of the clock (time.time(), modification times)   *)
(*   wk       each worker's position and local variables in                *)
(*            search_cluster_artifacts                                     *)
(*   sc       each worker's position and local variables in expect_errors  *)
(*   lock     the holder of the advisory lock ignore_rules_<instance>.lock *)
(*            of the cluster instance, or "free"                           *)
(*   nApp     lines appended to the logs so far                            *)
(*   scanned  history: how often each byte of each incarnation of each     *)
(*            artifact was read by a sweep (counted up to ScanCap)         *)
(*   reported history: the lines added to a sweep's errors, each by the    *)
(*            incarnation and end offset of the line and by the sweep      *)
(*   quiet    history: sweeps completed since the state directory was      *)
(*            last written to                                              *)
(*   tied     history: a log was written at the very clock reading of its  *)
(*            bookmark, so that the two modification times are equal       *)
(*   expected history: the lines appended to a log while a rule of the     *)
(*            store matched them and their file, each by the incarnation   *)
(*            and end offset of the line, by the group of the rule and by  *)
(*            the clock reading of the write, until that group is deleted  *)
(*   gh       history: `unlocked` the accesses to rule files and bookmarks *)
(*            made by a worker that did not hold the lock; `added` the     *)
(*            rules whose add_ignore_rule call has returned, by group,     *)
(*            until the group is deleted; `last_del` the last call of      *)
(*            del_rules_file and how it ended; `bm` for every artifact the *)
(*            last two bookmarks written, each with the incarnation of the *)
(*            live file it was taken from; `stopped` for every sweep that  *)
(*            stopped between a bookmark write and the end of the scan,    *)
(*            the range of the artifact it had claimed and the read counts *)
(*            of that incarnation at the stop                              *)
(***************************************************************************)
VARIABLES dir, now, wk, sc, lock, nApp, scanned, reported, quiet, tied,
          expected, gh

vars == <<dir, now, wk, sc, lock, nApp, scanned, reported, quiet, tied,
          expected, gh>>

ScanCap == 2
Gens == 1..(MaxRot + 1)

NoName == [kind |-> "none", base |-> "", n |-> 0]

\* A worker outside any call.  `ret` and `exc` are the result of its last
\* call of search_cluster_artifacts: the returned list, or the exception;
\* `msg` is the message of the failure when the list was reported.
IdleWorker(nsweep, ret, exc) ==
  [pc |-> "idle", ignore_rules |-> {}, cands |-> {}, logfile |-> NoName,
   seek |-> 0, timestamp |-> 0, eof |-> 0, chain |-> <<>>, errors |-> <<>>,
   nsweep |-> nsweep, ret |-> ret, exc |-> exc, msg |-> <<>>]

\* A worker outside any expect_errors scope.  `result`, `regex` and `logfile`
\* tell how its last scope ended: "ok", or "AssertionError" with the regex and
\* the file the message names.  `nscope` counts its scopes, `entered` is the
\* value of the history `expected` when the scope was entered, `written` the
\* lines added to that history inside the scope; after a scope `timestamp`,
\* `seek_offsets`, `regex_pairs` and `rules_file_id` still hold its start
\* time, the offsets it recorded and its arguments.
OutOfScope(nscope, result, regex, logfile, written) ==
  [pc |-> "out", regex_pairs |-> <<>>, rules_file_id |-> "", todo |-> <<>>,
   seek_offsets |-> <<>>, timestamp |-> 0, nscope |-> nscope,
   result |-> result, regex |-> regex, logfile |-> logfile,
   entered |-> {}, written |-> written]

NoRules == [g \in Groups |-> <<>>]

NoMark == [off |-> -1, gen |-> 0]
NoDel == [g |-> "", missing |-> FALSE, exc |-> ""]

\* The rules written in the text of the rule file of group g.
RulesIn(g, data) ==
  {[g |-> g, rule |-> r] :
     r \in UNION {ParseRuleLine(l.text).rules : l \in Range(ReadFrom(data, 0))}}

\* The state in which the rule file of every group g holds the text store[g]
\* (no file for an empty text), no log was written and no worker has run.
InitState(store) ==
  /\ dir = [f \in Names |->
             IF f.kind = "rules" /\ store[f.base] # <<>>
             THEN File(store[f.base], 1) ELSE NoFile]
  /\ now = 1
  /\ wk = [w \in Workers |-> IdleWorker(0, <<>>, "")]
  /\ sc = [w \in Workers |-> OutOfScope(0, "", <<>>, NoName, {})]
  /\ lock = "free"
  /\ gh = [unlocked |-> {},
           added |-> UNION {RulesIn(g, store[g]) : g \in Groups},
           last_del |-> NoDel,
           bm |-> [b \in Bases |-> [prev |-> NoMark, cur |-> NoMark]],
           stopped |-> {}]
  /\ nApp = 0
  /\ scanned = [b \in Bases |-> [g \in Gens |-> <<>>]]
  /\ reported = {}
  /\ quiet = 0
  /\ tied = FALSE
  /\ expected = {}

Init == InitState(NoRules)

\* The number of <base>.<n> copies of the artifact b.
NumRotated(d, b) == Cardinality({n \in 1..(MaxRot + 1) : d[Log(b, n)].exists})

\* The incarnation of artifact b a log file name stands for: the copy number
\* it has, or will get when it is rotated.
Gen(d, f) == IF f.n > 0 THEN f.n ELSE NumRotated(d, f.base) + 1

(***************************************************************************)
(* Environment: the processes writing the logs, their rotation, the clock. *)
(***************************************************************************)
\* A write to artifact b now gets the modification time of b's bookmark.
Ties(b) == dir[Off(b)].exists /\ dir[Off(b)].mtime = now

\* A process appends one line to the live log file b, creating it if needed.
AppendLine(b, line) ==
  /\ nApp < MaxAppend
  /\ dir' = [dir EXCEPT ![Log(b, 0)] = File(@.data \o line, now)]
  /\ nApp' = nApp + 1
  /\ quiet' = 0
  /\ tied' = (tied \/ Ties(b))
  /\ expected' = expected \cup
       {[base |-> b, gen |-> Gen(dir, Log(b, 0)),
         end |-> Len(dir[Log(b, 0)].data) + Len(line), g |-> g,
         t |-> now] :
          g \in {h \in Groups : Covers(dir, h, Log(b, 0), line)}}
  /\ UNCHANGED <<now, wk, scanned, reported, sc, lock, gh>>

\* Rotation: the live file is renamed to the next <base>.<n> (a rename keeps
\* the modification time) and a fresh live file is created.
Rotate(b) ==
  /\ dir[Log(b, 0)].exists
  /\ dir[Log(b, 0)].data # <<>>
  /\ NumRotated(dir, b) < MaxRot
  /\ dir' = [dir EXCEPT ![Log(b, NumRotated(dir, b) + 1)] = dir[Log(b, 0)],
                        ![Log(b, 0)] = File(<<>>, now)]
  /\ quiet' = 0
  /\ tied' = (tied \/ Ties(b))
  /\ UNCHANGED <<now, wk, nApp, scanned, reported, expected, sc, lock, gh>>

Tick ==
  /\ now < MaxTime
  /\ now' = now + 1
  /\ UNCHANGED <<dir, wk, nApp, scanned, reported, quiet, tied, expected, sc, lock, gh>>

(***************************************************************************)
(* add_ignore_rule and del_rules_file: each one critical section under the *)
(* lock of the cluster instance.                                           *)
(***************************************************************************)
MaxRules == 2       \* rule lines in the store

NumRuleLines(d) ==
  Cardinality(UNION {{<<g, e>> : e \in EndsFrom(d[Rules(g)].data, 0)} :
                        g \in Groups})

\* The lock when worker w leaves a block it entered holding the lock, the
\* lock not being given back.
Release_kept(w) == w

\* The lock when worker w leaves its block `with locking.FileLockIfXdist(...)`,
\* normally or by an exception.
Release(w) == "free"

\* An access to a file of the given kind made by worker w: recorded when w
\* does not hold the lock.
Unlocked(w, kind, op) ==
  IF lock = w THEN {} ELSE {[w |-> w, kind |-> kind, op |-> op]}

\* The text of a rule file opened with mode "w" and written to.
Appended_truncating(data, line) == line

\* open(rules_file, "a"); infile.write(line): the text of the file afterwards.
Appended(data, line) == data \o line

\* The effect of add_ignore_rule on the state directory and on the history.
AddRule(files_glob, regex, rules_file_id) ==
  /\ dir' = [dir EXCEPT ![Rules(rules_file_id)] =
               File(Appended(@.data, RuleLine(files_glob, regex)), now)]
  /\ gh' = [gh EXCEPT !.added =
              @ \cup {[g |-> rules_file_id, rule |-> <<files_glob, regex>>]}]
  /\ quiet' = 0

\* add_ignore_rule called by a process outside the model's workers: the
\* whole call, from taking the lock to giving it back.
add_ignore_rule(files_glob, regex, rules_file_id) ==
  /\ lock = "free"
  /\ NumRuleLines(dir) < MaxRules
  /\ AddRule(files_glob, regex, rules_file_id)
  /\ UNCHANGED <<now, wk, nApp, scanned, reported, tied, expected, sc, lock>>

\* rules_file.unlink() that leaves the file in place.
unlink_kept(d, f) == [raised |-> ~d[f].exists, dir |-> d]

\* rules_file.unlink(): FileNotFoundError when there is no such file.
unlink(d, f) == [raised |-> ~d[f].exists, dir |-> [d EXCEPT ![f] = NoFile]]

\* The exception leaving del_rules_file without its except clause.
del_rules_file_exc_uncaught(raised) ==
  IF raised THEN "FileNotFoundError" ELSE ""

\* The exception leaving del_rules_file: `except FileNotFoundError: pass`.
del_rules_file_exc(raised) == ""

\* del_rules_file: the whole call, from taking the lock to giving it back.
del_rules_file(rules_file_id) ==
  /\ lock = "free"
  /\ LET u == unlink(dir, Rules(rules_file_id))
     IN /\ dir' = u.dir
        /\ gh' = [gh EXCEPT
                    !.added = {a \in @ : a.g # rules_file_id},
                    !.last_del = [g |-> rules_file_id, missing |-> u.raised,
                                  exc |-> del_rules_file_exc(u.raised)]]
  /\ expected' = {e \in expected : e.g # rules_file_id}
  /\ UNCHANGED <<now, wk, nApp, scanned, reported, quiet, tied, sc, lock>>

(***************************************************************************)
(* search_cluster_artifacts, one action per step of one worker.            *)
(***************************************************************************)
\* _get_seek(fpath): int(infile.readline().strip()); int("") raises
\* ValueError.
_get_seek(d, fpath) ==
  IF d[fpath].data = <<>> THEN [raised |-> TRUE, value |-> 0]
  ELSE [raised |-> FALSE, value |-> d[fpath].data[1]]

\* The call ends with an exception.
Raised(w, e) == [wk EXCEPT ![w] = IdleWorker(@.nsweep, <<>>, e)]

\* search_cluster_artifacts is called; get_ignore_rules takes the lock.
SweepCall(w) ==
  /\ wk[w].pc = "idle"
  /\ wk[w].nsweep < MaxSweeps
  /\ lock = "free"
  /\ lock' = w
  /\ wk' = [wk EXCEPT ![w] = [IdleWorker(@.nsweep + 1, <<>>, "")
                                EXCEPT !.pc = "rules"]]
  /\ UNCHANGED <<dir, now, nApp, scanned, reported, quiet, tied, expected, sc, gh>>

\* ignore_rules = get_ignore_rules(): the rule files are read and the lock is
\* given back; errors = []
SweepRules(w) ==
  /\ wk[w].pc = "rules"
  /\ LET r == get_ignore_rules(dir)
     IN wk' = IF r.raised
              THEN [wk EXCEPT ![w] = IdleWorker(@.nsweep, <<>>, "ValueError")]
              ELSE [wk EXCEPT ![w].pc = "glob", ![w].ignore_rules = r.rules]
  /\ gh' = [gh EXCEPT !.unlocked = @ \cup Unlocked(w, "rules", "read")]
  /\ lock' = Release(w)
  /\ UNCHANGED <<dir, now, nApp, scanned, reported, quiet, tied, expected, sc>>

\* state_dir.glob("*.std*"): the directory is listed when the loop starts.
SweepGlob(w) ==
  /\ wk[w].pc = "glob"
  /\ wk' = [wk EXCEPT ![w].pc = "loop",
                      ![w].cands = {f \in Names : /\ dir[f].exists
                                                  /\ GlobMatch("*.std*", f)}]
  /\ UNCHANGED <<dir, now, nApp, scanned, reported, quiet, tied, expected, sc, lock, gh>>

\* The loop without its skip test: every file of the listing is a candidate.
Skipped_never(logfile) == FALSE

\* The skip test of the loop: a status file or a rotated log.
Skipped(logfile) == EndsWithOffset(logfile) \/ ROTATED_RE_match(logfile)

\* The next file of the loop, in directory order (any order).
SweepNext(w) ==
  /\ wk[w].pc = "loop"
  /\ \E logfile \in wk[w].cands :
       wk' = [wk EXCEPT ![w].cands = @ \ {logfile},
                        ![w].pc = IF Skipped(logfile) THEN "loop" ELSE "bookmark",
                        ![w].logfile = IF Skipped(logfile) THEN NoName ELSE logfile]
  /\ UNCHANGED <<dir, now, nApp, scanned, reported, quiet, tied, expected, sc, lock, gh>>

\* return errors
SweepReturn(w) ==
  /\ wk[w].pc = "loop"
  /\ wk[w].cands = {}
  /\ wk' = [wk EXCEPT ![w] = IdleWorker(@.nsweep, @.errors, "")]
  /\ quiet' = quiet + 1
  /\ UNCHANGED <<dir, now, nApp, scanned, reported, tied, expected, sc, lock, gh>>

\* Read seek offset and timestamp of the last search from the offset file.
ReadBookmark(w) ==
  /\ wk[w].pc = "bookmark"
  /\ LET offset_file == Off(wk[w].logfile.base)
         s == _get_seek(dir, offset_file)
     IN wk' = IF ~dir[offset_file].exists
              THEN [wk EXCEPT ![w].pc = "open", ![w].seek = 0, ![w].timestamp = 0]
              ELSE IF s.raised THEN Raised(w, "ValueError")
              ELSE [wk EXCEPT ![w].pc = "open", ![w].seek = s.value,
                              ![w].timestamp = dir[offset_file].mtime]
  /\ gh' = [gh EXCEPT !.unlocked = @ \cup Unlocked(w, "off", "read")]
  /\ UNCHANGED <<dir, now, nApp, scanned, reported, quiet, tied, expected, sc, lock>>

\* open(offset_file, "w") empties the file; helpers.get_eof_offset(logfile)
\* is then evaluated.
OpenOffset(w) ==
  /\ wk[w].pc = "open"
  /\ dir' = [dir EXCEPT ![Off(wk[w].logfile.base)] = File(<<>>, now)]
  /\ wk' = [wk EXCEPT ![w].pc = "write",
                      ![w].eof = get_eof_offset(dir, wk[w].logfile)]
  /\ gh' = [gh EXCEPT !.unlocked = @ \cup Unlocked(w, "off", "write")]
  /\ UNCHANGED <<now, nApp, scanned, reported, quiet, tied, expected, sc, lock>>

\* The offset read from the old bookmark written back in place of the end of
\* the file.
OffsetWritten_old(seek, eof) == <<seek>>

\* The text of the new bookmark: str(helpers.get_eof_offset(logfile)).
OffsetWritten(seek, eof) == <<eof>>

\* outfile.write(str(eof)) reaches the file when the with block closes it.
WriteOffset(w) ==
  /\ wk[w].pc = "write"
  /\ LET b == wk[w].logfile.base
         text == OffsetWritten(wk[w].seek, wk[w].eof)
     IN /\ dir' = [dir EXCEPT ![Off(b)] = File(text, now)]
        /\ gh' = [gh EXCEPT
                    !.unlocked = @ \cup Unlocked(w, "off", "write"),
                    !.bm[b] = [prev |-> @.cur,
                               cur |-> [off |-> text[1],
                                        gen |-> Gen(dir, wk[w].logfile)]]]
  /\ wk' = [wk EXCEPT ![w].pc = "resolve"]
  /\ UNCHANGED <<now, nApp, scanned, reported, quiet, tied, expected, sc, lock>>

\* get_rotated_logs(logfile=logfile, seek=seek, timestamp=timestamp)
Resolve(w) ==
  /\ wk[w].pc = "resolve"
  /\ \E chain \in get_rotated_logs(dir, wk[w].logfile, wk[w].seek,
                                   wk[w].timestamp) :
       wk' = [wk EXCEPT ![w].pc = IF chain = <<>> THEN "loop" ELSE "scan",
                        ![w].chain = chain]
  /\ UNCHANGED <<dir, now, nApp, scanned, reported, quiet, tied, expected, sc, lock, gh>>

\* Reading every segment from its start, the recorded offset being dropped.
SeekOf_start(seek, logfile_rec) == 0

\* The offset at which the lines of a segment are read: infile.seek(seek).
SeekOf(seek, logfile_rec) == seek

\* The lines the scan of one segment adds to errors.
ScanLines(d, w, logfile_rec) ==
  LET errors_ignored == get_ignore_regex(wk[w].ignore_rules, ERRORS_IGNORED,
                                         wk[w].logfile)
  IN SelectSeq(ReadFrom(d[logfile_rec.logfile].data,
                        SeekOf(wk[w].seek, logfile_rec)),
               LAMBDA l : Offending(errors_ignored, l.text))

\* The read counts c with the bytes from+1..to read once more.
Mark(c, from, to) ==
  [i \in 1..Max2(Len(c), to) |->
     LET old == IF i <= Len(c) THEN c[i] ELSE 0
     IN IF from < i /\ i <= to /\ old < ScanCap THEN old + 1 ELSE old]

\* One segment of the chain: open, seek, test every line.
ScanSegment(w) ==
  /\ wk[w].pc = "scan"
  /\ LET logfile_rec == Head(wk[w].chain)
         found == ScanLines(dir, w, logfile_rec)
     IN /\ wk' = [wk EXCEPT
                    ![w].chain = Tail(@),
                    ![w].pc = IF Tail(wk[w].chain) = <<>> THEN "loop" ELSE "scan",
                    ![w].errors = @ \o [i \in 1..Len(found) |->
                                          <<wk[w].logfile, found[i].text>>]]
        /\ scanned' = [scanned EXCEPT
                          ![logfile_rec.logfile.base][Gen(dir, logfile_rec.logfile)] =
                            Mark(@, SeekOf(wk[w].seek, logfile_rec),
                                 Len(dir[logfile_rec.logfile].data))]
        /\ reported' = reported \cup
                         {[base |-> logfile_rec.logfile.base,
                           gen |-> Gen(dir, logfile_rec.logfile),
                           end |-> found[i].end,
                           w |-> w, k |-> wk[w].nsweep] : i \in 1..Len(found)}
  /\ UNCHANGED <<dir, now, nApp, quiet, tied, expected, sc, lock, gh>>

\* The process of the worker ends (a crash, a kill) after it wrote the
\* bookmark of an artifact and before it has read the last segment of the
\* chain; the worker is started again later.  The bookmark stays as written.
SweepStop(w) ==
  /\ wk[w].pc \in {"resolve", "scan"}
  /\ wk' = Raised(w, "Stopped")
  /\ LET b == wk[w].logfile.base
         g == Gen(dir, wk[w].logfile)
     IN gh' = [gh EXCEPT !.stopped = @ \cup
                 {[base |-> b, gen |-> g, from |-> wk[w].seek,
                   to |-> wk[w].eof, cnt |-> scanned[b][g]]}]
  /\ UNCHANGED <<dir, now, nApp, scanned, reported, quiet, tied, expected, sc, lock>>

Sweep(w) ==
  \/ SweepCall(w) \/ SweepRules(w) \/ SweepGlob(w) \/ SweepNext(w) \/ SweepReturn(w)
  \/ ReadBookmark(w) \/ OpenOffset(w) \/ WriteOffset(w)
  \/ Resolve(w) \/ ScanSegment(w)

(***************************************************************************)
(* expect_errors, one action per step of one worker: the registration of   *)
(* each pair, the recording of the offsets and of the start time, and the  *)
(* verification that follows the body of the with statement.               *)
(***************************************************************************)
MaxScopes == 1      \* expect_errors scopes entered by one worker

\* expect_errors(regex_pairs, rules_file_id) is called.
ScopeCall(w, regex_pairs, rules_file_id) ==
  /\ sc[w].pc = "out"
  /\ sc[w].nscope < MaxScopes
  /\ sc' = [sc EXCEPT ![w] =
              [OutOfScope(@.nscope + 1, "", <<>>, NoName, {})
                 EXCEPT !.pc = "register", !.regex_pairs = regex_pairs,
                        !.rules_file_id = rules_file_id, !.todo = regex_pairs,
                        !.entered = expected]]
  /\ UNCHANGED <<dir, now, wk, nApp, scanned, reported, quiet, tied, expected, lock, gh>>

\* One turn of the first loop begins: add_ignore_rule takes the lock.
ScopeLock(w) ==
  /\ sc[w].pc = "register"
  /\ sc[w].todo # <<>>
  /\ lock = "free"
  /\ lock' = w
  /\ sc' = [sc EXCEPT ![w].pc = "locked"]
  /\ UNCHANGED <<dir, now, wk, nApp, scanned, reported, quiet, tied, expected, gh>>

\* The pairs left to register when the loop stops after its first turn.
RestOf_none(todo) == <<>>

\* The pairs left to register after one turn of the loop.
RestOf(todo) == Tail(todo)

\* add_ignore_rule(files_glob, regex, rules_file_id) writes the rule and
\* gives the lock back.
ScopeRegister(w) ==
  /\ sc[w].pc = "locked"
  /\ LET pair == Head(sc[w].todo)
     IN /\ dir' = [dir EXCEPT ![Rules(sc[w].rules_file_id)] =
                     File(Appended(@.data, RuleLine(pair[1], pair[2])), now)]
        /\ gh' = [gh EXCEPT
                    !.added = @ \cup {[g |-> sc[w].rules_file_id,
                                       rule |-> <<pair[1], pair[2]>>]},
                    !.unlocked = @ \cup Unlocked(w, "rules", "write")]
  /\ quiet' = 0
  /\ lock' = Release(w)
  /\ sc' = [sc EXCEPT ![w].pc = "register", ![w].todo = RestOf(@)]
  /\ UNCHANGED <<now, wk, nApp, scanned, reported, tied, expected>>

\* The globs are resolved, the end of every file found is recorded as its
\* seek offset, the start time is taken, and the body of the with statement
\* begins.
ScopeRecord(w) ==
  /\ sc[w].pc = "register"
  /\ sc[w].todo = <<>>
  /\ LET expanded_paths ==
           {f \in Names :
              /\ dir[f].exists
              /\ \E i \in DOMAIN sc[w].regex_pairs :
                   fnmatch_filter(f, sc[w].regex_pairs[i][1])}
     IN sc' = [sc EXCEPT ![w].pc = "armed",
                         ![w].seek_offsets =
                           [f \in expanded_paths |-> get_eof_offset(dir, f)],
                         ![w].timestamp = now]
  /\ UNCHANGED <<dir, now, wk, nApp, scanned, reported, quiet, tied, expected, lock, gh>>

\* The search of one log file for the expected error: some line read from
\* offset `seek` on, in some file of the chain, matches the regex.
line_found(d, logfile, seek, timestamp, regex) ==
  \E chain \in get_rotated_logs(d, logfile, seek, timestamp) :
    \E i \in DOMAIN chain :
      \E l \in Range(ReadFrom(d[chain[i].logfile].data, seek)) :
        re_search(regex, l.text)

\* The files of the pair for which the for-else clause raises.
NotFoundIn(d, w, pair) ==
  {logfile \in DOMAIN sc[w].seek_offsets :
     /\ fnmatch_filter(logfile, pair[1])
     /\ ~ROTATED_RE_match(logfile)
     /\ ~line_found(d, logfile, sc[w].seek_offsets[logfile], sc[w].timestamp,
                    pair[2])}

\* The body of the with statement has ended normally: the generator is
\* resumed after its yield.
ScopeLeave(w) ==
  /\ sc[w].pc = "armed"
  /\ sc' = [sc EXCEPT ![w].pc = "verifying"]
  /\ UNCHANGED <<dir, now, wk, nApp, scanned, reported, quiet, tied, expected, lock, gh>>

\* The state directory after a verification that removes the rule file of the
\* scope when it fails.
ExitDir_rollback(d, w, failed) ==
  IF failed THEN [d EXCEPT ![Rules(sc[w].rules_file_id)] = NoFile] ELSE d

\* The state directory after the verification: it writes and removes nothing.
ExitDir(d, w, failed) == d

\* Every pair is verified in turn, every matching file in the order of the
\* listing (any order); the first search that finds no line raises
\* AssertionError.
ScopeExit(w) ==
  /\ sc[w].pc = "verifying"
  /\ LET pairs == sc[w].regex_pairs
         failing == {i \in DOMAIN pairs : NotFoundIn(dir, w, pairs[i]) # {}}
         written == expected \ sc[w].entered
         Left(result, regex, logfile) ==
           [OutOfScope(sc[w].nscope, result, regex, logfile, written)
              EXCEPT !.timestamp = sc[w].timestamp,
                     !.seek_offsets = sc[w].seek_offsets,
                     !.regex_pairs = sc[w].regex_pairs,
                     !.rules_file_id = sc[w].rules_file_id]
     IN /\ IF failing = {}
           THEN sc' = [sc EXCEPT ![w] = Left("ok", <<>>, NoName)]
           ELSE LET i == CHOOSE j \in failing : \A k \in failing : j <= k
                IN \E logfile \in NotFoundIn(dir, w, pairs[i]) :
                     sc' = [sc EXCEPT ![w] =
                              Left("AssertionError", pairs[i][2], logfile)]
        /\ dir' = ExitDir(dir, w, failing # {})
  /\ UNCHANGED <<now, wk, nApp, scanned, reported, quiet, tied, expected, lock, gh>>

\* The position of a generator whose yield stands in a try statement with a
\* finally clause holding the verification.
AfterRaise_finally(w) == "verifying"

\* The position of the generator of expect_errors after an exception was
\* thrown into it at its yield: the yield stands in no try statement, so the
\* exception leaves the generator and nothing after the yield is run.
AfterRaise(w) == "out"

\* The body of the with statement raises: contextlib throws the exception
\* into the generator at its yield.
ScopeAbort(w) ==
  /\ sc[w].pc = "armed"
  /\ sc' = [sc EXCEPT ![w] =
              [OutOfScope(@.nscope, "ActionError", <<>>, NoName,
                          expected \ @.entered)
                 EXCEPT !.pc = AfterRaise(w),
                        !.timestamp = sc[w].timestamp,
                        !.seek_offsets = sc[w].seek_offsets,
                        !.regex_pairs = sc[w].regex_pairs,
                        !.rules_file_id = sc[w].rules_file_id]]
  /\ UNCHANGED <<dir, now, wk, nApp, scanned, reported, quiet, tied, expected, lock, gh>>

Scope(w) ==
  \/ ScopeLock(w) \/ ScopeRegister(w) \/ ScopeRecord(w)
  \/ ScopeLeave(w) \/ ScopeExit(w)

(***************************************************************************)
(* report_artifacts_errors.                                                *)
(***************************************************************************)
\* str(path) of a log file of the state directory.
PathStr(f) == IF f.n = 0 THEN f.base ELSE "rotated"

\* One entry of the report without the path of the file.
ErrEntry_nopath(e) == e[2]

\* f"{e[0]}: {e[1]}"
ErrEntry(e) == <<PathStr(e[1]), ": ">> \o e[2]

\* sep.join(list)
RECURSIVE join(_, _)
join(sep, list) ==
  IF list = <<>> THEN <<>>
  ELSE IF Len(list) = 1 THEN list[1]
  ELSE list[1] \o sep \o join(sep, Tail(list))

\* The message report_artifacts_errors(errors) hands to pytest.fail.
report_artifacts_errors(errors) ==
  LET err == [i \in DOMAIN errors |-> ErrEntry(errors[i])]
      err_joined == join(<<NL>>, err)
  IN <<"Errors found in cluster log files:", NL>> \o err_joined

\* The worker reports the list its last sweep returned: pytest.fail raises
\* Failed with the message.
Report(w) ==
  /\ wk[w].pc = "idle"
  /\ wk[w].nsweep > 0
  /\ wk[w].exc = ""
  /\ wk' = [wk EXCEPT ![w].exc = "Failed",
                      ![w].msg = report_artifacts_errors(wk[w].ret)]
  /\ UNCHANGED <<dir, now, sc, lock, nApp, scanned, reported, quiet, tied,
                 expected, gh>>

(***************************************************************************)
(* Lines the writers append.                                               *)
(***************************************************************************)
LnOk == <<"ok", NL>>
LnSpecError == <<"ERROR:", "disk full", NL>>
LnError == <<":error:", "disk full", NL>>
LnFailed == <<"failed", NL>>
LnExpected == <<"MyExpectedError", "failed", NL>>
LnBaseline == <<"failedScripts", NL>>

(***************************************************************************)
(* SpecSeq: one worker sweeps; the logs are written and rotated between    *)
(* its calls, never during one.                                            *)
(***************************************************************************)
SeqBases == {"node.stdout"}
SeqLines == {LnOk, LnError}

EnvSeq ==
  \/ \E b \in SeqBases, line \in SeqLines : AppendLine(b, line)
  \/ \E b \in SeqBases : Rotate(b)
  \/ Tick

NextSeq ==
  \/ Sweep("w1")
  \/ wk["w1"].pc = "idle" /\ EnvSeq

SpecSeq == Init /\ [][NextSeq]_vars

(***************************************************************************)
(* SpecCrash: as SpecSeq, and the sweeping process can stop after a        *)
(* bookmark write.                                                         *)
(***************************************************************************)
MaxCrashAppend == 2  \* lines appended to the logs in SpecCrash
MaxCrashStops == 1   \* stops of the sweeping process in SpecCrash

EnvCrash ==
  \/ /\ nApp < MaxCrashAppend
     /\ \E b \in SeqBases, line \in SeqLines : AppendLine(b, line)
  \/ \E b \in SeqBases : Rotate(b)
  \/ Tick

NextCrash ==
  \/ Sweep("w1")
  \/ Cardinality(gh.stopped) < MaxCrashStops /\ SweepStop("w1")
  \/ wk["w1"].pc = "idle" /\ EnvCrash

SpecCrash == Init /\ [][NextCrash]_vars

(***************************************************************************)
(* SpecChain: get_rotated_logs is called for a live log file with any      *)
(* offset and timestamp, on the directories the writers, the rotation and  *)
(* the removal of a live file leave.                                       *)
(***************************************************************************)
MaxChainAppend == 2  \* lines appended to the logs in SpecChain
MaxChainSeek == 2    \* largest seek offset passed to get_rotated_logs

\* The live file of artifact b is removed.
DeleteLog(b) ==
  /\ dir[Log(b, 0)].exists
  /\ dir' = [dir EXCEPT ![Log(b, 0)] = NoFile]
  /\ quiet' = 0
  /\ UNCHANGED <<now, wk, nApp, scanned, reported, tied, expected, sc, lock, gh>>

\* The worker calls get_rotated_logs(logfile, seek, timestamp) and keeps the
\* arguments and the list returned.
ChainCall(w, logfile, seek, timestamp) ==
  /\ wk[w].pc = "idle"
  /\ wk[w].exc = ""
  /\ \E chain \in get_rotated_logs(dir, logfile, seek, timestamp) :
       wk' = [wk EXCEPT ![w].exc = "chain", ![w].logfile = logfile,
                        ![w].seek = seek, ![w].timestamp = timestamp,
                        ![w].chain = chain]
  /\ UNCHANGED <<dir, now, nApp, scanned, reported, quiet, tied, expected, sc, lock, gh>>

\* The worker drops the list.
ChainDrop(w) ==
  /\ wk[w].exc = "chain"
  /\ wk' = [wk EXCEPT ![w] = IdleWorker(@.nsweep, <<>>, "")]
  /\ UNCHANGED <<dir, now, nApp, scanned, reported, quiet, tied, expected, sc, lock, gh>>

EnvChain ==
  \/ /\ nApp < MaxChainAppend
     /\ \E b \in Bases : AppendLine(b, LnOk)
  \/ \E b \in Bases : Rotate(b)
  \/ \E b \in Bases : DeleteLog(b)
  \/ Tick

NextChain ==
  \/ \E b \in Bases, seek \in 0..MaxChainSeek, timestamp \in 0..MaxTime :
       ChainCall("w1", Log(b, 0), seek, timestamp)
  \/ ChainDrop("w1")
  \/ wk["w1"].exc = "" /\ EnvChain

SpecChain == Init /\ [][NextChain]_vars

(***************************************************************************)
(* SpecRules: the rule store.  The rule files hold whole rules, lines      *)
(* without the separator and partly written lines when the behaviour       *)
(* starts; rules are added to group g1, one of them with the separator in  *)
(* its regex; groups are deleted; one worker lists the rules in sweeps of  *)
(* a state directory without logs.                                         *)
(***************************************************************************)
MaxRulesSweeps == 2  \* calls of search_cluster_artifacts in SpecRules

LnRule == RuleLine(<<"*.stdout">>, <<"disk full">>)
LnNoSep == <<"*.stdout", NL>>
LnPartial == <<"*.stdout">>

RulesStores ==
  {[g \in Groups |-> IF g = "g1" THEN t1 ELSE t2] :
     t1 \in {<<>>, LnRule, LnNoSep},
     t2 \in {<<>>, LnPartial, LnNoSep \o LnRule, LnRule \o LnPartial}}

RulesArgs == {<< <<"*.stdout">>, <<"MyExpectedError">> >>,
              << <<"*.stdout">>, <<"disk full", SEP, "failed">> >>}

InitRules == \E store \in RulesStores : InitState(store)

NextRules ==
  \/ wk["w2"].nsweep < MaxRulesSweeps /\ SweepCall("w2")
  \/ SweepRules("w2") \/ SweepGlob("w2") \/ SweepReturn("w2")
  \/ \E r \in RulesArgs : add_ignore_rule(r[1], r[2], "g1")
  \/ \E g \in Groups : del_rules_file(g)

SpecRules == InitRules /\ [][NextRules]_vars

(***************************************************************************)
(* SpecRace: one worker sweeps while a process appends lines to the live   *)
(* log file, between any two steps of a sweep.                             *)
(***************************************************************************)
MaxRaceAppend == 2  \* lines appended to the log in SpecRace
MaxRaceSweeps == 3  \* calls of search_cluster_artifacts in SpecRace
MaxRaceTime == 2    \* readings of the clock in SpecRace

EnvRace ==
  \/ /\ nApp < MaxRaceAppend
     /\ AppendLine("node.stdout", LnError)
  \/ now < MaxRaceTime /\ Tick

NextRace ==
  \/ /\ wk["w1"].pc = "idle" => wk["w1"].nsweep < MaxRaceSweeps
     /\ Sweep("w1")
  \/ EnvRace

SpecRace == Init /\ [][NextRace]_vars

(***************************************************************************)
(* SpecAbort: worker w1 enters a scope whose action writes the expected    *)
(* line or not and ends normally or raises; worker w2 sweeps.              *)
(***************************************************************************)
MaxAbortAppend == 1  \* lines appended to the logs in SpecAbort
MaxAbortTime == 2    \* readings of the clock in SpecAbort
MaxAbortSweeps == 1  \* calls of search_cluster_artifacts in SpecAbort

EnvAbort ==
  \/ /\ nApp < MaxAbortAppend
     /\ \E line \in {LnOk, LnExpected} : AppendLine("node.stdout", line)
  \/ now < MaxAbortTime /\ Tick

NextAbort ==
  \/ ScopeCall("w1", << <<<<"*.stdout">>, <<"MyExpectedError">>>> >>, "g1")
  \/ Scope("w1")
  \/ ScopeAbort("w1")
  \/ /\ wk["w2"].pc = "idle" => wk["w2"].nsweep < MaxAbortSweeps
     /\ Sweep("w2")
  \/ sc["w1"].pc \in {"out", "armed"} /\ EnvAbort

SpecAbort == Init /\ [][NextAbort]_vars

(***************************************************************************)
(* SpecFilter: as SpecSeq, with the lines that tell the error signature    *)
(* and the baseline ignore list apart.                                     *)
(***************************************************************************)
MaxFilterAppend == 2  \* lines appended to the logs in SpecFilter

FilterLines == {LnOk, LnSpecError, LnError, LnBaseline}

EnvFilter ==
  \/ /\ nApp < MaxFilterAppend
     /\ \E b \in SeqBases, line \in FilterLines : AppendLine(b, line)
  \/ \E b \in SeqBases : Rotate(b)
  \/ Tick

NextFilter ==
  \/ Sweep("w1")
  \/ wk["w1"].pc = "idle" /\ EnvFilter

\* The rule store is empty, or add_ignore_rule("*.stdout", "disk full", "g1")
\* has been called.
InitFilter ==
  \E store \in {NoRules,
                 [NoRules EXCEPT !["g1"] = RuleLine(<<"*.stdout">>, <<"disk full">>)]} :
    InitState(store)

SpecFilter == InitFilter /\ [][NextFilter]_vars

(***************************************************************************)
(* SpecUnion: as SpecSeq, the store holding rules of two groups: one rule  *)
(* of each group for node.stdout, and one rule for pool.stdout only.       *)
(***************************************************************************)
MaxUnionAppend == 2  \* lines appended to the logs in SpecUnion

UnionLines == {LnError, LnExpected, LnFailed}

UnionStore ==
  [g \in Groups |->
     IF g = "g1" THEN RuleLine(<<"*.stdout">>, <<"disk full">>)
     ELSE RuleLine(<<"node.stdout">>, <<"MyExpectedError">>)
            \o RuleLine(<<"pool.stdout">>, <<"failed">>)]

EnvUnion ==
  \/ /\ nApp < MaxUnionAppend
     /\ \E b \in SeqBases, line \in UnionLines : AppendLine(b, line)
  \/ \E b \in SeqBases : Rotate(b)
  \/ Tick

NextUnion ==
  \/ Sweep("w1")
  \/ wk["w1"].pc = "idle" /\ EnvUnion

InitUnion == InitState(UnionStore)

SpecUnion == InitUnion /\ [][NextUnion]_vars

(***************************************************************************)
(* SpecScope: one worker enters and leaves expect_errors with one pair      *)
(* while two logs are written and rotated; nothing is written during the   *)
(* steps of the entry.                                                     *)
(***************************************************************************)
MaxScopeAppend == 3  \* lines appended to the logs in SpecScope

ScopeBases == {"node.stdout", "pool.stdout"}
ScopeLines == {LnOk, LnExpected}
ScopePairs == {<< <<<<"*.stdout">>, <<"MyExpectedError">>>> >>,
               << <<<<"node.stdout">>, <<"MyExpectedError">>>> >>,
               << <<<<"node.stdout">>, <<"MyExpectedError">>>>,
                  <<<<"pool.stdout">>, <<"MyExpectedError">>>> >>}

EnvScope ==
  \/ /\ nApp < MaxScopeAppend
     /\ \E b \in ScopeBases, line \in ScopeLines : AppendLine(b, line)
  \/ \E b \in ScopeBases : Rotate(b)
  \/ Tick

NextScope ==
  \/ \E regex_pairs \in ScopePairs : ScopeCall("w1", regex_pairs, "g1")
  \/ Scope("w1")
  \/ sc["w1"].pc \in {"out", "armed"} /\ EnvScope

SpecScope == Init /\ [][NextScope]_vars

(***************************************************************************)
(* SpecRollback: worker w1 enters and leaves expect_errors while worker w2 *)
(* sweeps, a log is written and the rule group of the scope is deleted, in *)
(* every interleaving.                                                     *)
(***************************************************************************)
MaxRollbackAppend == 1  \* lines appended to the logs in SpecRollback
MaxRollbackTime == 2    \* readings of the clock in SpecRollback
MaxRollbackSweeps == 2  \* calls of search_cluster_artifacts in SpecRollback

RollbackPairs == << <<<<"*.stdout">>, <<"MyExpectedError">>>> >>

EnvRollback ==
  \/ /\ nApp < MaxRollbackAppend
     /\ AppendLine("node.stdout", LnExpected)
  \/ now < MaxRollbackTime /\ Tick
  \/ del_rules_file("g1")

NextRollback ==
  \/ ScopeCall("w1", RollbackPairs, "g1")
  \/ Scope("w1")
  \/ /\ wk["w2"].pc = "idle" => wk["w2"].nsweep < MaxRollbackSweeps
     /\ Sweep("w2")
  \/ EnvRollback

SpecRollback == Init /\ [][NextRollback]_vars

(***************************************************************************)
(* SpecStore: the rule store under concurrent use.  Worker w1 registers    *)
(* the pairs of a scope, other processes add rules to either group and     *)
(* delete groups, and worker w2 reads the rules at the start of its        *)
(* sweeps; no log exists.                                                  *)
(***************************************************************************)
MaxStoreRules == 3   \* rule lines in the store in SpecStore
MaxStoreSweeps == 2  \* calls of search_cluster_artifacts in SpecStore

StoreRules == {<< <<"*.stdout">>, <<"disk full">>, "g1" >>,
               << <<"*.stdout">>, <<"disk full">>, "g2" >>,
               << <<"pool.stdout">>, <<"failed">>, "g2" >>}

NextStore ==
  \/ \E regex_pairs \in ScopePairs : ScopeCall("w1", regex_pairs, "g1")
  \/ ScopeLock("w1") \/ ScopeRegister("w1") \/ ScopeRecord("w1")
  \/ /\ wk["w2"].pc = "idle" => wk["w2"].nsweep < MaxStoreSweeps
     /\ Sweep("w2")
  \/ /\ NumRuleLines(dir) < MaxStoreRules
     /\ \E r \in StoreRules : add_ignore_rule(r[1], r[2], r[3])
  \/ \E g \in Groups : del_rules_file(g)

SpecStore == Init /\ [][NextStore]_vars

(***************************************************************************)
(* SpecReport: one worker sweeps two logs and reports what a sweep         *)
(* returned.                                                               *)
(***************************************************************************)
MaxReportAppend == 3  \* lines appended to the logs in SpecReport
MaxReportSweeps == 2  \* calls of search_cluster_artifacts in SpecReport

ReportLines == {LnOk, LnError, LnFailed}

EnvReport ==
  \/ /\ nApp < MaxReportAppend
     /\ \E b \in Bases, line \in ReportLines : AppendLine(b, line)
  \/ Tick

NextReport ==
  \/ /\ wk["w1"].pc = "idle" => wk["w1"].nsweep < MaxReportSweeps
     /\ Sweep("w1")
  \/ Report("w1")
  \/ wk["w1"].pc = "idle" /\ EnvReport

SpecReport == Init /\ [][NextReport]_vars

(***************************************************************************)
(* Spec: the workers sweep concurrently while the logs are written and     *)
(* while rules are added to and deleted from the store.  Every             *)
(* interleaving of the steps is a behaviour.                               *)
(***************************************************************************)
MaxConcSweeps == 1  \* calls of search_cluster_artifacts by one worker in Spec
MaxConcAppend == 2  \* lines appended to the logs in Spec
MaxConcTime == 2    \* readings of the clock in Spec
MaxConcRules == 1   \* rule lines in the store in Spec

ConcBases == {"node.stdout"}
ConcLines == {LnExpected}
ConcRules == {<< <<"*.stdout">>, <<"MyExpectedError">>, "g1" >>}

Env ==
  \/ /\ nApp < MaxConcAppend
     /\ \E b \in ConcBases, line \in ConcLines : AppendLine(b, line)
  \/ now < MaxConcTime /\ Tick

RuleStore ==
  \/ /\ NumRuleLines(dir) < MaxConcRules
     /\ \E r \in ConcRules : add_ignore_rule(r[1], r[2], r[3])
  \/ \E r \in ConcRules : del_rules_file(r[3])

Next ==
  \/ \E w \in Workers :
       /\ wk[w].pc = "idle" => wk[w].nsweep < MaxConcSweeps
       /\ Sweep(w)
  \/ Env
  \/ RuleStore

Spec == Init /\ [][Next]_vars

(***************************************************************************)
(* Properties.                                                             *)
(***************************************************************************)
\* The text of incarnation g of artifact b: the copy <b>.<g>, or the live
\* file while it is the incarnation g.
DataOf(b, g) ==
  IF dir[Log(b, g)].exists THEN dir[Log(b, g)].data
  ELSE IF dir[Log(b, 0)].exists /\ Gen(dir, Log(b, 0)) = g
       THEN dir[Log(b, 0)].data
       ELSE <<>>

\* How often byte i of incarnation g of artifact b was read by the sweeps.
Count(b, g, i) == IF i <= Len(scanned[b][g]) THEN scanned[b][g][i] ELSE 0

AllScanned(b) ==
  \A g \in Gens : \A i \in 1..Len(DataOf(b, g)) : Count(b, g, i) >= 1

\* C1: incremental coverage.  Once N + 1 sweeps have completed after the last
\* write to an artifact rotated N times (no write having met the clock reading
\* of a bookmark), every byte ever written to the artifact has been read by a
\* sweep.
C1_NoGap ==
  (/\ wk["w1"].pc = "idle"
   /\ ~tied
   /\ \A b \in SeqBases : quiet >= NumRotated(dir, b) + 1)
    => \A b \in SeqBases : AllScanned(b)

\* C2: no re-scan.  No byte of any incarnation of an artifact is read more
\* than once by the sweeps of SpecSeq, neither by two sweeps nor twice within
\* the chain of one sweep.
C2_NoRescan ==
  \A b \in Bases : \A g \in Gens : \A i \in 1..Len(scanned[b][g]) :
    scanned[b][g][i] <= 1

\* A sweep that read the bookmark K > 0 has scanned the chain of an artifact
\* rotated since the bookmark was written: the copy <base>.1, read up to K by
\* an earlier sweep and beyond K by this one, and bytes of the new live file.
C2_Witness ==
  \E b \in SeqBases :
    /\ wk["w1"].pc = "loop" /\ wk["w1"].logfile = Log(b, 0)
    /\ wk["w1"].seek > 0
    /\ NumRotated(dir, b) = 1
    /\ Len(DataOf(b, 1)) > wk["w1"].seek
    /\ \A i \in 1..Len(DataOf(b, 1)) : Count(b, 1, i) = 1
    /\ \E i \in 1..Len(DataOf(b, 2)) : Count(b, 2, i) = 1

\* The scenario of C3 as worker w meets it when it has scanned the chain of
\* its candidate: the bookmark it read held offset K = seek > 0, the file was
\* then appended to and renamed to <base>.1, and the new live file was
\* appended to.
C3_Scenario(w) ==
  LET b == wk[w].logfile.base
  IN /\ wk[w].pc = "loop"
     /\ wk[w].logfile # NoName
     /\ wk[w].seek > 0
     /\ NumRotated(dir, b) = 1
     /\ Len(dir[Log(b, 1)].data) > wk[w].seek
     /\ dir[Log(b, 1)].mtime > wk[w].timestamp
     /\ dir[Log(b, 0)].data # <<>>
     /\ dir[Log(b, 0)].mtime > wk[w].timestamp

\* C3: rotation offset reassignment.  In that scenario the scan has read
\* <base>.1 from offset K on and the new live file from offset 0 on.
C3_OffsetReassigned ==
  \A w \in {"w1"} :
    C3_Scenario(w) =>
      LET b == wk[w].logfile.base
      IN /\ \A i \in (wk[w].seek + 1)..Len(dir[Log(b, 1)].data) :
              Count(b, 1, i) >= 1
         /\ \A i \in 1..Len(dir[Log(b, 0)].data) : Count(b, 2, i) >= 1

\* C5: no duplicate reporting under repeated sweeps.  A call of
\* search_cluster_artifacts that follows a completed call, with nothing
\* written to the state directory in between, returns the empty list.
C5_SecondSweepEmpty ==
  \A w \in Workers :
    (wk[w].pc = "idle" /\ quiet >= 2) => (wk[w].exc = "" /\ wk[w].ret = <<>>)

\* The second of two such calls has returned, and the first one had reported
\* a line.
C5_Witness ==
  /\ wk["w1"].pc = "idle"
  /\ quiet >= 2
  /\ \E r \in reported : r.w = "w1" /\ r.k = wk["w1"].nsweep - 1

\* C4: no duplicate reporting across concurrent sweeps.  Every line of every
\* incarnation of an artifact is added to the errors of at most one sweep.
C4_NoDuplicateReport ==
  \A r1, r2 \in reported :
    (r1.base = r2.base /\ r1.gen = r2.gen /\ r1.end = r2.end)
      => (r1.w = r2.w /\ r1.k = r2.k)

\* C10: expected errors are invisible to every scanning pass.  A line appended
\* to a file while a rule of the store matched the file and the line, the
\* rule's group not having been deleted since, is in the errors of no sweep.
C10_ExpectedInvisible ==
  \A r \in reported :
    ~\E e \in expected :
       e.base = r.base /\ e.gen = r.gen /\ e.end = r.end

\* The lines of incarnation g of artifact b, each with its end offset.
LinesIn(b, g) == Range(ReadFrom(DataOf(b, g), 0))

\* A sweep has read the line l of incarnation g of artifact b from its first
\* byte on.
ReadWhole(b, g, l) == Count(b, g, l.end - Len(l.text) + 1) >= 1

\* A sweep has added the line ending at offset e to its errors.
Reported(b, g, e) ==
  \E r \in reported : r.base = b /\ r.gen = g /\ r.end = e

\* The line matches a regex of the baseline list or of a rule of the store
\* whose glob matches the live file b.
EffectivelyIgnored(b, text) ==
  \/ \E r \in Range(ERRORS_IGNORED) : re_search(r, text)
  \/ \E r \in get_ignore_rules(dir).rules :
       fnmatch_filter(Log(b, 0), r[1]) /\ re_search(r[2], text)

\* The words of the model that hold one of the tokens error, fail, failure,
\* case ignored.
SpecSignature(text) ==
  \E i \in DOMAIN text :
    text[i] \in {"ERROR:", ":error:", "failed", "failedScripts"}

\* The words of the model that hold :error:, failed or failure, case ignored.
CodeSignature(text) ==
  \E i \in DOMAIN text : text[i] \in {":error:", "failed", "failedScripts"}

\* The first sweep of a directory that holds node.stdout alone, never rotated,
\* with the given text, has returned.
FirstSweepOf(data) ==
  /\ wk["w1"].pc = "idle" /\ wk["w1"].nsweep = 1 /\ wk["w1"].exc = ""
  /\ quiet = 1
  /\ NumRotated(dir, "node.stdout") = 0
  /\ dir[Log("node.stdout", 0)].exists
  /\ dir[Log("node.stdout", 0)].data = data
  /\ ~dir[Rules("g1")].exists

\* C6 as stated: a line read by a sweep is reported if and only if it holds
\* one of the tokens error, fail or failure and does not match the effective
\* ignore regex; the sweep of node.stdout with the lines "ok" and
\* "ERROR: disk full" returns that one pair.
C6_SpecSignature ==
  /\ \A b \in SeqBases : \A g \in Gens : \A l \in LinesIn(b, g) :
       ReadWhole(b, g, l) =>
         (Reported(b, g, l.end) <=>
            (SpecSignature(l.text) /\ ~EffectivelyIgnored(b, l.text)))
  /\ FirstSweepOf(LnOk \o LnSpecError) =>
       wk["w1"].ret = << <<Log("node.stdout", 0), LnSpecError>> >>

\* C6 amended: a line that a sweep reads from its first byte on is reported if
\* and only if it holds :error:, failed or failure (case ignored) and does not
\* match the effective ignore regex of its file; the sweep of node.stdout with
\* the lines "ok" and "ERROR: disk full" returns the empty list, and with the
\* lines "ok" and ":error: disk full" exactly the pair of the second line.
C6_CodeSignature ==
  /\ \A b \in SeqBases : \A g \in Gens : \A l \in LinesIn(b, g) :
       ReadWhole(b, g, l) =>
         (Reported(b, g, l.end) <=>
            (CodeSignature(l.text) /\ ~EffectivelyIgnored(b, l.text)))
  /\ FirstSweepOf(LnOk \o LnSpecError) => wk["w1"].ret = <<>>
  /\ FirstSweepOf(LnOk \o LnError) =>
       wk["w1"].ret = << <<Log("node.stdout", 0), LnError>> >>

\* The sweep of node.stdout with the lines "ok" and ":error: disk full" has
\* returned the pair of the second line.
C6_Witness ==
  /\ FirstSweepOf(LnOk \o LnError)
  /\ wk["w1"].ret = << <<Log("node.stdout", 0), LnError>> >>
  /\ ReadWhole("node.stdout", 1, [end |-> 5, text |-> LnError])

\* The rules of group g in the store whose glob matches the live file b.
RulesFor(b, g) ==
  IF ~dir[Rules(g)].exists THEN {}
  ELSE {r \in UNION {ParseRuleLine(l.text).rules :
                       l \in Range(ReadFrom(dir[Rules(g)].data, 0))} :
          fnmatch_filter(Log(b, 0), r[1])}

\* C7: ignore-rule union.  The store holds, from the start of every sweep on,
\* rules of two groups whose globs match node.stdout, with the regexes R1 and
\* R2, and a rule whose glob matches pool.stdout only.  Of the lines a sweep
\* reads from node.stdout, one that matches R1 or R2 is never reported; one
\* that matches the error signature and no regex of a rule for the file or of
\* the baseline list is reported, also when it matches the regex of the rule
\* for pool.stdout.
C7_IgnoreRuleUnion ==
  /\ \A g \in Groups : RulesFor("node.stdout", g) # {}
  /\ \A g \in Gens : \A l \in LinesIn("node.stdout", g) :
       ReadWhole("node.stdout", g, l) =>
         /\ (\E h \in Groups : \E r \in RulesFor("node.stdout", h) :
               re_search(r[2], l.text))
              => ~Reported("node.stdout", g, l.end)
         /\ (/\ CodeSignature(l.text)
             /\ \A h \in Groups : \A r \in RulesFor("node.stdout", h) :
                  ~re_search(r[2], l.text)
             /\ \A r \in Range(ERRORS_IGNORED) : ~re_search(r, l.text))
              => Reported("node.stdout", g, l.end)
         /\ (l.text = LnFailed /\ re_search(<<"failed">>, l.text))
              => Reported("node.stdout", g, l.end)

\* A sweep has read, from node.stdout, a line matching R2 and a line matching
\* the regex of the rule for pool.stdout; it reported the last one alone.
C7_Witness ==
  /\ wk["w1"].pc = "idle"
  /\ NumRotated(dir, "node.stdout") = 0
  /\ dir[Log("node.stdout", 0)].data = LnExpected \o LnFailed
  /\ \A l \in LinesIn("node.stdout", 1) : ReadWhole("node.stdout", 1, l)
  /\ {r.end : r \in reported} = {5}
  /\ <<<<"pool.stdout">>, <<"failed">>>> \in get_ignore_rules(dir).rules

\* Worker w has left a scope of expect_errors.
ScopeLeft(w) == sc[w].pc = "out" /\ sc[w].result # ""

\* C8: scoped expectation round trip, success.  When a scope has one pair and
\* a line matching the regex of the pair was written to a file matching its glob between the entry of
\* the scope and its exit, at a clock reading later than the start time of
\* the scope, the exit returns normally, however many files match the glob.
C8_ScopeSatisfied ==
  \A w \in Workers :
    (/\ ScopeLeft(w)
     /\ Len(sc[w].regex_pairs) = 1
     /\ \E e \in sc[w].written : e.t > sc[w].timestamp)
      => sc[w].result = "ok"

\* C9: scoped expectation round trip, failure.  When no line matching the
\* regex of the pair was written to any file matching its glob between the
\* entry of the scope and its exit, the exit raises an assertion error that
\* names the regex, whatever the state directory held at the entry.
C9_ScopeFails ==
  \A w \in Workers :
    (ScopeLeft(w) /\ sc[w].written = {})
      => (sc[w].result = "AssertionError" /\ sc[w].regex = <<"MyExpectedError">>)

\* The steps of one expect_errors scope: the entry (call, one locked write
\* per pair, recording), the caller's action, the verification, the end.
ScopeSteps ==
  {<<"out", "register">>, <<"register", "locked">>, <<"locked", "register">>,
   <<"register", "armed">>, <<"armed", "verifying">>, <<"verifying", "out">>}

\* The files of the state directory matching a glob of the pairs of worker w.
Expanded(d, w) ==
  {f \in Names : /\ d[f].exists
                 /\ \E i \in DOMAIN sc[w].regex_pairs :
                      fnmatch_filter(f, sc[w].regex_pairs[i][1])}

StillRegistered(w, p) ==
  /\ ScopeLeft(w)
  /\ p \in Range(sc[w].regex_pairs)
  /\ [g |-> sc[w].rules_file_id, rule |-> p] \in gh.added

\* C12: no rollback.  After the exit of a scope, Satisfied or Failed, every
\* pair it registered is returned by get_ignore_rules, is read by every sweep
\* that starts and is part of the ignore regex of the files its glob matches,
\* until del_rules_file is called for the group of the scope; the exit itself
\* leaves every file of the state directory as it was.
C12_NoRollback ==
  [][\A w \in Workers :
       /\ (sc[w].pc = "verifying" /\ sc'[w].pc = "out") => dir' = dir
       /\ \A p \in Range(sc[w].regex_pairs) :
            StillRegistered(w, p) =>
              /\ p \in get_ignore_rules(dir).rules
              /\ \A v \in Workers :
                   (wk[v].pc = "rules" /\ wk'[v].pc = "glob") =>
                     /\ p \in wk'[v].ignore_rules
                     /\ \A b \in Bases :
                          fnmatch_filter(Log(b, 0), p[1]) =>
                            p[2] \in get_ignore_regex(wk'[v].ignore_rules,
                                                      ERRORS_IGNORED, Log(b, 0))
    ]_vars

\* A scope has failed, no group was deleted, and the other worker has just
\* read the rules for a sweep: the pair of the scope is among them.
C12_Witness ==
  /\ sc["w1"].result = "AssertionError"
  /\ StillRegistered("w1", RollbackPairs[1])
  /\ wk["w2"].pc = "glob"
  /\ RollbackPairs[1] \in wk["w2"].ignore_rules
  /\ gh.last_del.g = ""

\* The rules whose add_ignore_rule call has returned, their group not having
\* been deleted since.
AddedRules == {a.rule : a \in gh.added}

\* Worker v ends the get_ignore_rules call of its sweep with this step.
RulesRead(v) == wk[v].pc = "rules" /\ wk'[v].pc # "rules"

\* C13: no lost rule updates.  Whatever the interleaving of the add_ignore_rule
\* calls of the workers and of other processes, to one group or to several,
\* every rule whose add call has returned, its group not having been deleted
\* since, is in the rule files of the state directory and in the result of
\* every get_ignore_rules call that ends afterwards.
C13_NoLostRule ==
  [][/\ AddedRules \subseteq get_ignore_rules(dir).rules
     /\ \A v \in Workers :
          RulesRead(v) =>
            (wk'[v].exc = "" /\ AddedRules \subseteq wk'[v].ignore_rules)
    ]_vars

\* Worker w2 has read three rules of two groups, one of them registered by the
\* scope of worker w1 and the others by other processes.
C13_Witness ==
  /\ wk["w2"].pc = "glob"
  /\ Cardinality(gh.added) = 3
  /\ {a.g : a \in gh.added} = Groups
  /\ sc["w1"].pc = "armed"
  /\ wk["w2"].ignore_rules = AddedRules
  /\ Cardinality(AddedRules) >= 2

\* C16: idempotent group deletion.  No call of del_rules_file ends with an
\* exception, the rule file of its group existing or not, whoever calls it
\* and however often; as long as no rule is added to the group afterwards the
\* group has no rule file.
C16_IdempotentDelete ==
  /\ gh.last_del.exc = ""
  /\ (gh.last_del.g # "" /\ \A a \in gh.added : a.g # gh.last_del.g)
       => ~dir[Rules(gh.last_del.g)].exists

\* del_rules_file was called for a group without a rule file, and returned.
C16_Witness ==
  /\ gh.last_del.g = "g1"
  /\ gh.last_del.missing
  /\ gh.last_del.exc = ""
  /\ ~dir[Rules("g1")].exists
  /\ dir[Rules("g2")].exists

\* C17: a rule group is deleted as a unit.  The rule file of a group holds all
\* the rules added to the group since its last deletion, or does not exist; a
\* get_ignore_rules call returns no rule but those, so none of a group deleted
\* before and not a part only of the rules of a group; del_rules_file leaves
\* the rule file of every other group as it was.
C17_GroupDeletedAsUnit ==
  [][/\ \A g \in Groups :
          /\ RulesIn(g, dir[Rules(g)].data) = {a \in gh.added : a.g = g}
          /\ (dir[Rules(g)].exists /\ ~dir'[Rules(g)].exists) =>
               \A h \in Groups \ {g} : dir'[Rules(h)] = dir[Rules(h)]
     /\ \A v \in Workers :
          RulesRead(v) => wk'[v].ignore_rules = AddedRules
    ]_vars

\* Group g1, holding rules, was deleted; worker w2 then read the rules of
\* group g2 and none of group g1.
C17_Witness ==
  /\ gh.last_del.g = "g1" /\ ~gh.last_del.missing
  /\ wk["w2"].pc = "glob"
  /\ gh.added # {}
  /\ \A a \in gh.added : a.g = "g2"
  /\ wk["w2"].ignore_rules = AddedRules

\* Worker w is between the read of the old bookmark of artifact b and the
\* write of the new one.
InBookmarkUpdate(w, b) ==
  wk[w].pc \in {"open", "write"} /\ wk[w].logfile.base = b

\* C14: lock discipline.  Every read and every write of a rule file and of a
\* bookmark is made by a worker holding the lock of the cluster instance, and
\* two workers are never both between the read of the old bookmark of one
\* artifact and the write of its new one.
C14_LockDiscipline ==
  /\ gh.unlocked = {}
  /\ \A v, w \in Workers : \A b \in Bases :
       (InBookmarkUpdate(v, b) /\ InBookmarkUpdate(w, b)) => v = w

\* Worker w is reading the lines of a log segment, in a sweep or in the
\* verification of a scope, or is in the caller's action of a scope.
ScanningOrActing(w) ==
  \/ wk[w].pc \in {"resolve", "scan"}
  \/ sc[w].pc \in {"armed", "verifying"}

\* C15: the lock is never held across a scan or an action.  A worker that is
\* reading the lines of a log segment or is inside the caller's action of a
\* scope does not hold the lock; a worker holds it only inside the one
\* get_ignore_rules or add_ignore_rule call that took it.
C15_LockNotHeldAcrossScan ==
  \A w \in Workers :
    /\ ScanningOrActing(w) => lock # w
    /\ lock = w => (wk[w].pc = "rules" \/ sc[w].pc = "locked")

\* Worker w2 reads the lines of a log segment while worker w1 holds the lock
\* for the registration of its pair.
C15_Witness ==
  /\ wk["w2"].pc = "scan"
  /\ sc["w1"].pc = "locked"
  /\ lock = "w1"

\* The sweeps of worker w1 have written the bookmark of artifact b at least
\* twice, and w1 is outside any sweep.
TwoBookmarks(b) ==
  /\ wk["w1"].pc = "idle"
  /\ gh.bm[b].prev # NoMark

\* C18 as stated: bookmark monotonicity.  The offset written to the bookmark
\* of an artifact by a completed sweep is greater than or equal to the offset
\* written by the completed sweep before it, whatever was appended and
\* rotated between the two.
C18_BookmarkMonotone ==
  \A b \in SeqBases :
    TwoBookmarks(b) => gh.bm[b].cur.off >= gh.bm[b].prev.off

\* C18 amended: the bookmark a sweep writes is the size of the live file; it
\* is greater than or equal to the offset written by the sweep before it as
\* long as the live file was not rotated between the two sweeps, and after a
\* rotation it is the size of the new live file, whatever the old offset.
C18_MonotoneUntilRotated ==
  \A b \in SeqBases :
    /\ (TwoBookmarks(b) /\ gh.bm[b].cur.gen = gh.bm[b].prev.gen)
         => gh.bm[b].cur.off >= gh.bm[b].prev.off
    /\ (wk["w1"].pc = "idle" /\ quiet >= 1 /\ dir[Log(b, 0)].exists)
         => /\ dir[Off(b)].data = <<Len(dir[Log(b, 0)].data)>>
            /\ gh.bm[b].cur = [off |-> Len(dir[Log(b, 0)].data),
                               gen |-> Gen(dir, Log(b, 0))]

\* Two sweeps in a row found the same live file, longer the second time, and
\* the bookmark has grown.
C18_Witness ==
  /\ TwoBookmarks("node.stdout")
  /\ gh.bm["node.stdout"].cur.gen = gh.bm["node.stdout"].prev.gen
  /\ gh.bm["node.stdout"].cur.off > gh.bm["node.stdout"].prev.off
  /\ gh.bm["node.stdout"].prev.off > 0

\* C19 as stated: a bookmark is never changed mid-sweep.  While a sweep has
\* segments of an artifact left to scan, the bookmark of the artifact is what
\* the sweep found: the offset it read, or no file.
C19_BookmarkKeptMidSweep ==
  \A w \in {"w1"} :
    wk[w].pc = "scan" =>
      LET o == dir[Off(wk[w].logfile.base)]
      IN IF wk[w].timestamp = 0 THEN ~o.exists
         ELSE o.exists /\ o.data = <<wk[w].seek>>

\* C19 amended: a sweep writes the bookmark of an artifact once, before it
\* scans the segments of the artifact.  While it has segments left to scan
\* the bookmark holds the size the live file had when the sweep reached the
\* artifact, and the scan of a segment leaves every file as it is.
C19_BookmarkWrittenBeforeScan ==
  [][\A w \in {"w1"} :
       wk[w].pc = "scan" =>
         /\ dir[Off(wk[w].logfile.base)].exists
         /\ dir[Off(wk[w].logfile.base)].data = <<wk[w].eof>>
         /\ wk[w].eof = Len(dir[wk[w].logfile].data)
         /\ dir' = dir
    ]_vars

\* A sweep that read the offset K > 0 from the bookmark has segments left to
\* scan, and the bookmark already holds another offset.
C19_Witness ==
  /\ wk["w1"].pc = "scan"
  /\ wk["w1"].seek > 0
  /\ dir[Off("node.stdout")].data = <<wk["w1"].eof>>
  /\ wk["w1"].eof > wk["w1"].seek

\* The places of the message at which the path of a file stands.
PathPlaces(msg) == {i \in DOMAIN msg : msg[i] \in Bases}

\* The place of the message at which the entry of the k-th pair of the list
\* starts: after the heading, the entries before it and their separators.
RECURSIVE EntryPlace(_, _)
EntryPlace(errors, k) ==
  IF k = 1 THEN 3
  ELSE EntryPlace(errors, k - 1) + 2 + Len(errors[k - 1][2]) + 1

\* C20: reporting.  report_artifacts_errors called with a non-empty list ends
\* in a failure whose message holds, after its heading, one entry for every
\* pair of the list, in the order of the list: the path of the file, ": ",
\* and the whole line; there is no other entry and no text outside entries but
\* one newline between two of them.
C20_ReportListsEveryPair ==
  \A w \in Workers :
    (wk[w].exc = "Failed" /\ wk[w].ret # <<>>) =>
      LET msg == wk[w].msg
          errors == wk[w].ret
          n == Len(errors)
      IN /\ SubSeq(msg, 1, 2) = <<"Errors found in cluster log files:", NL>>
         /\ PathPlaces(msg) = {EntryPlace(errors, k) : k \in 1..n}
         /\ \A k \in 1..n :
              LET i == EntryPlace(errors, k)
              IN /\ msg[i] = errors[k][1].base
                 /\ msg[i + 1] = ": "
                 /\ SubSeq(msg, i + 2, i + 1 + Len(errors[k][2])) = errors[k][2]
                 /\ k < n => msg[i + 2 + Len(errors[k][2])] = NL
         /\ Len(msg) = EntryPlace(errors, n) + 1 + Len(errors[n][2])

\* A list of three pairs, of two files, two of them equal, was reported.
C20_Witness ==
  /\ wk["w1"].exc = "Failed"
  /\ Len(wk["w1"].ret) = 3
  /\ {wk["w1"].ret[k][1].base : k \in 1..3} = Bases
  /\ \E j, k \in 1..3 : j # k /\ wk["w1"].ret[j] = wk["w1"].ret[k]

\* The bookmark of the artifact the sweep of worker w is at: offset and
\* modification time of the offset file, 0 and 0 when there is none.
OldBookmark(w) ==
  LET o == dir[Off(wk[w].logfile.base)]
  IN IF o.exists THEN [seek |-> o.data[1], timestamp |-> o.mtime]
     ELSE [seek |-> 0, timestamp |-> 0]

\* Worker w is between the read of the bookmark of an artifact and the end of
\* the scan of its chain.
AtArtifact(w) == wk[w].pc \in {"open", "write", "resolve", "scan"}

\* The read count of byte i in the counts c of one incarnation.
CountIn(c, i) == IF i <= Len(c) THEN c[i] ELSE 0

\* C21: claim before read.  For every candidate file the sweep keeps the
\* offset and timestamp it read from the old bookmark, writes the new
\* bookmark, which holds the size of the live file, before any line of the
\* artifact is read, and reads only bytes beyond the old offset, of files
\* modified after the old timestamp; and no byte of the range a stopped sweep
\* had claimed is read by a later sweep.
C21_ClaimBeforeRead ==
  [][\A w \in {"w1"} :
       LET b == wk[w].logfile.base
       IN /\ wk[w].pc = "open" =>
               /\ wk[w].seek = OldBookmark(w).seek
               /\ wk[w].timestamp = OldBookmark(w).timestamp
          /\ (AtArtifact(w) /\ wk'[w].pc \in {"write", "resolve", "scan"}) =>
               /\ wk'[w].seek = wk[w].seek
               /\ wk'[w].timestamp = wk[w].timestamp
          /\ (wk[w].pc = "write" /\ wk'[w].pc = "resolve") =>
               dir'[Off(b)].data = <<Len(dir[wk[w].logfile].data)>>
          /\ scanned' # scanned =>
               /\ wk[w].pc = "scan"
               /\ dir[Off(b)].data = <<wk[w].eof>>
               /\ \A g \in Gens : \A i \in 1..Len(scanned'[b][g]) :
                    scanned'[b][g][i] # CountIn(scanned[b][g], i)
                      => /\ i > wk[w].seek
                         /\ \E f \in Names :
                              /\ f.kind = "log" /\ f.base = b /\ dir[f].exists
                              /\ Gen(dir, f) = g
                              /\ dir[f].mtime > wk[w].timestamp
          /\ \A c \in gh'.stopped : \A i \in (c.from + 1)..c.to :
               CountIn(scanned'[c.base][c.gen], i) = CountIn(c.cnt, i)
    ]_vars

\* A sweep stopped after it had claimed a range of two bytes or more without
\* reading it, and a later sweep has read bytes written after the claim and
\* has returned.
C21_Witness ==
  \E c \in gh.stopped :
    /\ c.to > c.from
    /\ \A i \in (c.from + 1)..c.to : Count(c.base, c.gen, i) = 0
    /\ Count(c.base, c.gen, c.to + 1) = 1
    /\ wk["w1"].pc = "idle" /\ wk["w1"].exc = ""

\* Worker w holds the list a call of get_rotated_logs has just returned.
ChainReturned(w) == wk[w].exc = "chain"

\* The files of the state directory whose name matches <base>* for the log
\* file the call of worker w was made for.
VersionsOf(w) ==
  {f \in Names : f.kind = "log" /\ f.base = wk[w].logfile.base /\ dir[f].exists}

\* C22: chain shape.  When the files kept have distinct modification times,
\* the list get_rotated_logs returns is ordered from the oldest modification
\* time to the newest, its element with the smallest modification time has
\* the seek offset of the call, and every other element has seek offset 0.
C22_ChainShape ==
  \A w \in {"w1"} :
    LET chain == wk[w].chain
    IN (/\ ChainReturned(w)
        /\ \A i, j \in DOMAIN chain :
             i # j => chain[i].timestamp # chain[j].timestamp)
         => /\ \A i, j \in DOMAIN chain :
                 i < j => chain[i].timestamp < chain[j].timestamp
            /\ \A i \in DOMAIN chain :
                 chain[i].seek =
                   IF \A j \in DOMAIN chain :
                        chain[i].timestamp <= chain[j].timestamp
                   THEN wk[w].seek ELSE 0

\* C23: chain membership.  The list get_rotated_logs returns holds exactly the
\* files named <base>* whose modification time is greater than the timestamp
\* of the call, each once and with its modification time; a file as old as
\* the timestamp or older is not in it; it is empty when no file qualifies.
C23_ChainMembership ==
  \A w \in {"w1"} :
    ChainReturned(w) =>
      LET chain == wk[w].chain
          kept == {f \in VersionsOf(w) : dir[f].mtime > wk[w].timestamp}
      IN /\ {chain[i].logfile : i \in DOMAIN chain} = kept
         /\ Len(chain) = Cardinality(kept)
         /\ \A i \in DOMAIN chain :
              chain[i].timestamp = dir[chain[i].logfile].mtime
         /\ (kept = {}) = (chain = <<>>)

\* A call whose list holds the live file and leaves out its rotated copy,
\* which was last modified at the very timestamp of the call, while the other
\* artifact has a file modified later.
C23_Witness ==
  /\ ChainReturned("w1")
  /\ wk["w1"].logfile = Log("node.stdout", 0)
  /\ Len(wk["w1"].chain) = 1
  /\ wk["w1"].chain[1].logfile = Log("node.stdout", 0)
  /\ dir[Log("node.stdout", 1)].exists
  /\ dir[Log("node.stdout", 1)].mtime = wk["w1"].timestamp
  /\ dir[Log("pool.stdout", 0)].exists
  /\ dir[Log("pool.stdout", 0)].mtime > wk["w1"].timestamp

\* A call for a log file that was written, never rotated, and removed: the
\* list is empty.
C23_WitnessDeleted ==
  /\ ChainReturned("w1")
  /\ nApp > 0
  /\ VersionsOf("w1") = {}
  /\ wk["w1"].chain = <<>>

\* C24: root candidates.  The file a sweep reads and writes a bookmark for,
\* resolves a chain for and reports lines of is always a live log file, never
\* an offset file or a rotated copy; every file of a chain is a log file of
\* the artifact of that live file, so that an offset file is never read as a
\* log and a rotated copy is read only in the chain of its live file.
C24_RootCandidates ==
  \A w \in {"w1"} :
    /\ wk[w].pc \in {"bookmark", "open", "write", "resolve", "scan"} =>
         /\ wk[w].logfile.kind = "log"
         /\ ~ROTATED_RE_match(wk[w].logfile)
         /\ ~EndsWithOffset(wk[w].logfile)
    /\ \A i \in DOMAIN wk[w].chain :
         /\ wk[w].chain[i].logfile.kind = "log"
         /\ wk[w].chain[i].logfile.base = wk[w].logfile.base
    /\ \A i \in DOMAIN wk[w].errors :
         wk[w].errors[i][1].kind = "log" /\ wk[w].errors[i][1].n = 0
    /\ \A i \in DOMAIN wk[w].ret :
         wk[w].ret[i][1].kind = "log" /\ wk[w].ret[i][1].n = 0

\* A sweep found the offset file written by an earlier sweep and a rotated
\* copy in its listing, passed over both, and is reading the rotated copy as
\* a segment of the chain of the live file.
C24_Witness ==
  /\ wk["w1"].pc = "scan"
  /\ wk["w1"].logfile = Log("node.stdout", 0)
  /\ wk["w1"].seek > 0
  /\ wk["w1"].cands = {}
  /\ \E i \in DOMAIN wk["w1"].chain :
       wk["w1"].chain[i].logfile = Log("node.stdout", 1)

\* Worker w has left a scope whose one pair names the one file f, which was
\* in the state directory at the entry.
LeftScopeOn(w, f) ==
  /\ ScopeLeft(w)
  /\ sc[w].regex_pairs = << <<<<f.base>>, <<"MyExpectedError">>>> >>
  /\ f \in DOMAIN sc[w].seek_offsets

\* C25: scoped search window.  For a file found at the entry of the scope,
\* with the end of the file recorded as K, the verification succeeds if and
\* only if a line matching the regex was written to the artifact inside the
\* scope (at a clock reading later than the start time, for the "if"): what
\* lay below K at the entry does not count, and a line written after a
\* rotation is found wherever it lies in the new file.
C25_ScopedWindow ==
  \A w \in {"w1"} : \A b \in ScopeBases :
    LeftScopeOn(w, Log(b, 0)) =>
      /\ sc[w].result = "ok" => \E e \in sc[w].written : e.base = b
      /\ (\E e \in sc[w].written : e.base = b /\ e.t > sc[w].timestamp)
           => sc[w].result = "ok"

\* The lines of the rule files of the state directory d.
AllRuleLines(d) ==
  UNION {{l.text : l \in Range(ReadFrom(d[Rules(g)].data, 0))} :
           g \in {h \in Groups : d[Rules(h)].exists}}

\* The places of the separator in a line.
SepPlaces(line) == {i \in DOMAIN line : line[i] = SEP}

\* The rule a line with one separator stands for: what is before the
\* separator, and what is after it without the newline.
RuleOfLine(line) ==
  LET k == CHOOSE i \in SepPlaces(line) : TRUE
      last == IF line[Len(line)] = NL THEN Len(line) - 1 ELSE Len(line)
  IN <<SubSeq(line, 1, k - 1), SubSeq(line, k + 1, last)>>

\* C26: malformed rule lines are skipped.  A get_ignore_rules call on rule
\* files whose lines hold the separator once or not at all, the last line of
\* a file being partly written or not, returns normally, and returns the
\* rules of the lines that hold the separator and nothing else.
C26_MalformedSkipped ==
  [][\A v \in Workers :
       (RulesRead(v) /\ \A l \in AllRuleLines(dir) : Cardinality(SepPlaces(l)) <= 1)
         => /\ wk'[v].exc = ""
            /\ wk'[v].pc = "glob"
            /\ wk'[v].ignore_rules =
                 {RuleOfLine(l) :
                    l \in {k \in AllRuleLines(dir) : SepPlaces(k) # {}}}
    ]_vars

\* Worker w2 has listed the one rule of two rule files that also hold a line
\* without the separator and a partly written line.
C26_Witness ==
  /\ wk["w2"].pc = "glob"
  /\ wk["w2"].ignore_rules = {<< <<"*.stdout">>, <<"disk full">> >>}
  /\ LnNoSep \in AllRuleLines(dir)
  /\ LnPartial \in AllRuleLines(dir)

\* C28: rule store round trip.  Whatever glob and regex were passed to
\* add_ignore_rule, with the separator in them or not, no listing of the
\* rules raises and, as long as the group of the rule is not deleted, a
\* listing returns the pair that was added.
C28_RuleRoundTrip ==
  /\ \A v \in Workers : wk[v].exc # "ValueError"
  /\ ~get_ignore_rules(dir).raised
  /\ \A a \in gh.added : a.rule \in get_ignore_rules(dir).rules

\* C27: exactly-once scanning under a racing writer.  Whatever the
\* interleaving of the appends to a live log file with the steps of the
\* sweeps, no byte of the file is read by two sweeps, and once two sweeps
\* have completed after the last append, the second of them having started
\* after it (no append having met the clock reading of a bookmark), every
\* byte of the file has been read.
C27_ExactlyOnceRacing ==
  /\ \A i \in 1..Len(scanned["node.stdout"][1]) :
       scanned["node.stdout"][1][i] <= 1
  /\ (wk["w1"].pc = "idle" /\ quiet >= 2 /\ ~tied) => AllScanned("node.stdout")

\* C29: reporting an empty result is not a failure.  A worker that reported
\* the list its sweep returned has failed if and only if the list was not
\* empty; reporting the empty list returns normally.
C29_EmptyReportReturns ==
  \A w \in Workers :
    wk[w].exc = "Failed" => wk[w].ret # <<>>

\* The action of the scope of worker w has raised.
ActionRaised(w) == sc[w].result = "ActionError"

====
